---- MODULE Spec2Model ----
(***************************************************************************)
(* A model of apps.py, the Delhi District Courts cause-list downloader:    *)
(* link discovery (get_pdf_links_for_court_and_date), the batch downloader *)
(* (download_all_judges_pdfs, download_pdf, safe_request) and the download *)
(* button handler of the Streamlit page.                                   *)
(*                                                                         *)
(* Python strings are modelled as sequences of one-character strings, so   *)
(* that stripping, case folding, substring search, regular-expression      *)
(* substitution and slicing are computed character by character.           *)
(***************************************************************************)
EXTENDS Integers, Sequences, FiniteSets, TLC

VARIABLES
    page,              \* the anchors of the cause-list page the site serves
    selected_court,    \* st.selectbox value (a key of DELHI_COURTS)
    selected_date,     \* st.date_input value, [day, month, year]
    phase,             \* where the button handler is: Idle, Fetching, Downloading, Result
    fetched,           \* what safe_request(DELHI_CAUSELIST_URL) gave in this run
    pdf_links,         \* the list get_pdf_links_for_court_and_date returned
    idx,               \* number of links the for loop has processed
    downloaded_files,  \* the list download_all_judges_pdfs builds and returns
    dir,               \* downloaded_pdfs/: file path -> the bytes written
    progress,          \* the values given to the progress bar in this run
    screen,            \* the st.* messages rendered in this run, in order
    attempts,          \* the download requests of this run: [url, filename, ok]
    response,          \* what the latest download request ended in
    prev,              \* the run before this one: its inputs, the directory after it
    presses            \* button presses so far

vars == <<page, selected_court, selected_date, phase, fetched, pdf_links, idx,
          downloaded_files, dir, progress, screen, attempts, response, prev,
          presses>>

----------------------------------------------------------------------------
(* Bounds of the model *)

\* longest page (number of anchors) the site serves
MaxAnchors == 2
\* button presses explored
MaxPresses == 2
\* longest free part of a judge label in the label specification
MaxLabelLen == 2

----------------------------------------------------------------------------
(* Characters and strings *)

UpperCase == <<"A","B","C","D","E","F","G","H","I","J","K","L","M",
               "N","O","P","Q","R","S","T","U","V","W","X","Y","Z">>
LowerCase == <<"a","b","c","d","e","f","g","h","i","j","k","l","m",
               "n","o","p","q","r","s","t","u","v","w","x","y","z">>
Digits == <<"0","1","2","3","4","5","6","7","8","9">>

Range(s) == {s[i] : i \in 1..Len(s)}
Letters == Range(UpperCase) \cup Range(LowerCase)
Whitespace == {" ", "\t", "\n"}

\* F(s), with s evaluated once
Once(F(_), s) == CHOOSE r \in {F(v) : v \in {s}} : TRUE

Min(a, b) == IF a <= b THEN a ELSE b

LowerOf ==
    [c \in Range(UpperCase) |->
        LowerCase[CHOOSE i \in 1..Len(UpperCase) : UpperCase[i] = c]]

\* str.lower() on one character
lower_char(c) == IF c \in DOMAIN LowerOf THEN LowerOf[c] ELSE c

\* str.lower()
lower(s) == Once(LAMBDA v : [i \in 1..Len(v) |-> lower_char(v[i])], s)

\* s[:n]
slice_to(s, n) == Once(LAMBDA v : SubSeq(v, 1, Min(n, Len(v))), s)

\* s.startswith(p)
startswith(s, p) == Len(s) >= Len(p) /\ SubSeq(s, 1, Len(p)) = p

\* p in s (also what re.search does for a pattern that is a literal)
contains(s, p) ==
    \E hay \in {s}, needle \in {p} :
        \E k \in 0..(Len(hay) - Len(needle)) :
            SubSeq(hay, k + 1, k + Len(needle)) = needle

RECURSIVE lstrip(_)
lstrip(s) ==
    IF s # <<>> /\ Head(s) \in Whitespace THEN lstrip(Tail(s)) ELSE s

RECURSIVE rstrip(_)
rstrip(s) ==
    IF s # <<>> /\ s[Len(s)] \in Whitespace
    THEN rstrip(SubSeq(s, 1, Len(s) - 1))
    ELSE s

\* str.strip()
strip(s) == lstrip(rstrip(s))

\* Tag.get_text(strip=True): every text node stripped, the empty ones dropped,
\* the rest joined with no separator
RECURSIVE get_text_strip(_)
get_text_strip(strings) ==
    IF strings = <<>> THEN <<>>
    ELSE strip(Head(strings)) \o get_text_strip(Tail(strings))

----------------------------------------------------------------------------
(* Program constants *)

DELHI_BASE_URL ==
    <<"h","t","t","p","s",":","/","/","n","e","w","d","e","l","h","i",".",
      "d","c","o","u","r","t","s",".","g","o","v",".","i","n">>

PatialaHouse ==
    <<"P","a","t","i","a","l","a"," ","H","o","u","s","e"," ",
      "C","o","u","r","t"," ","C","o","m","p","l","e","x">>
TisHazari == <<"T","i","s"," ","H","a","z","a","r","i"," ","C","o","u","r","t">>
Karkardooma ==
    <<"K","a","r","k","a","r","d","o","o","m","a"," ","C","o","u","r","t">>
DelhiHighCourt ==
    <<"D","e","l","h","i"," ","H","i","g","h"," ","C","o","u","r","t">>
SpecialCBI ==
    <<"S","p","e","c","i","a","l"," ","C","B","I"," ","C","o","u","r","t","s">>

\* the dictionary, in insertion order: display name -> slug
DELHI_COURTS ==
    << [name |-> PatialaHouse,
        slug |-> <<"p","a","t","i","a","l","a","-","h","o","u","s","e">>],
       [name |-> TisHazari,
        slug |-> <<"t","i","s","-","h","a","z","a","r","i">>],
       [name |-> Karkardooma,
        slug |-> <<"k","a","r","k","a","r","d","o","o","m","a">>],
       [name |-> DelhiHighCourt,
        slug |-> <<"d","h","c">>],
       [name |-> SpecialCBI,
        slug |-> <<"c","b","i","-","c","o","u","r","t","s">>] >>

\* list(DELHI_COURTS.keys()): what the selectbox offers
CourtNames == {DELHI_COURTS[i].name : i \in 1..Len(DELHI_COURTS)}

\* the payload must be longer than this to be written
MinPdfBytes == 1000
\* characters of the sanitized judge label kept in the file name
JudgeChars == 40
\* the only status download_pdf accepts
HttpOk == 200

OutputDir == <<"d","o","w","n","l","o","a","d","e","d","_","p","d","f","s">>
DotPdf == <<".","p","d","f">>
Http == <<"h","t","t","p">>
CauseListPrefix == <<"C","a","u","s","e","L","i","s","t","_">>

----------------------------------------------------------------------------
(* Link discovery: get_pdf_links_for_court_and_date *)

\* soup.find_all('a', href=re.compile(r'\.pdf', re.I)): the pattern is searched
\* for anywhere in the attribute's value, ignoring case
href_matches(href) == contains(lower(href), DotPdf)

\* "Make absolute URL"
full_url(href) ==
    IF startswith(href, Http)
    THEN href
    ELSE IF startswith(href, <<"/">>)
         THEN DELHI_BASE_URL \o href
         ELSE DELHI_BASE_URL \o <<"/">> \o href

\* variant: the two .lower() calls forgotten
court_filter_case_sensitive(link_text, court_complex) ==
    court_complex = <<>> \/ contains(link_text, court_complex)

\* not (court_complex and court_complex.lower() not in link_text.lower())
court_filter_passes(link_text, court_complex) ==
    court_complex = <<>> \/ contains(lower(link_text), lower(court_complex))

\* the for loop over the anchors find_all returned, with its continues
RECURSIVE scan_links(_, _)
scan_links(anchors, court_complex) ==
    IF anchors = <<>> THEN <<>>
    ELSE LET link      == Head(anchors)
             rest      == scan_links(Tail(anchors), court_complex)
             href      == strip(link.href)
             link_text == get_text_strip(link.strings)
         IN  IF ~href_matches(link.href) THEN rest
             ELSE IF href = <<>> THEN rest
             ELSE IF link_text = <<>> THEN rest
             ELSE IF ~court_filter_passes(link_text, court_complex) THEN rest
             ELSE << [name  |-> link_text,
                      url   |-> full_url(href),
                      judge |-> link_text] >> \o rest

----------------------------------------------------------------------------
(* File names: the body of the loop in download_all_judges_pdfs *)

\* \w of a str pattern, on the characters of the model (ASCII; Python's \w
\* also takes the letters and digits of other scripts)
WordChars == Letters \cup Range(Digits) \cup {"_"}
is_word(c) == c \in WordChars

\* re.sub(r'[^\w\s-]', '', s): every character outside the class is removed
re_sub_unsafe(s) ==
    SelectSeq(s, LAMBDA c : is_word(c) \/ c \in Whitespace \/ c = "-")

\* variant: the slice forgotten
safe_judge_untruncated(judge_name) == re_sub_unsafe(judge_name)

\* safe_judge = re.sub(r'[^\w\s-]', '', judge_name)[:40]
safe_judge_of(judge_name) == slice_to(re_sub_unsafe(judge_name), JudgeChars)

two_digits(n) == <<Digits[((n \div 10) % 10) + 1], Digits[(n % 10) + 1]>>

\* date_obj.strftime("%d-%m-%Y")
strftime_dmy(date_obj) ==
    two_digits(date_obj.day) \o <<"-">> \o two_digits(date_obj.month) \o <<"-">>
    \o two_digits(date_obj.year \div 100) \o two_digits(date_obj.year)

\* f"CauseList_{court_complex}_{safe_judge}_{date_str}.pdf"
make_filename(court_complex, safe_judge, date_str) ==
    CauseListPrefix \o court_complex \o <<"_">> \o safe_judge \o <<"_">>
    \o date_str \o DotPdf

\* os.path.join("downloaded_pdfs", filename)
join_path(filename) == OutputDir \o <<"/">> \o filename

----------------------------------------------------------------------------
(* Downloads: safe_request and download_pdf *)

\* What a GET can end in: an exception of requests.get (timeout, connection
\* error), or a response with a status and a body of len bytes.
Timeout == [kind |-> "timeout", status |-> 0, len |-> 0]
Responses ==
    {Timeout} \cup
    [kind : {"http"}, status : {200, 206, 404}, len : {999, 1000, 1001}]

\* safe_request gives the response unless requests.get or raise_for_status
\* (a 4xx or 5xx status) raised; None otherwise
safe_request_ok(resp) == resp.kind = "http" /\ resp.status < 400

\* variant: the length test forgotten
payload_accepted_any_length(resp) == resp.status = HttpOk

\* response.status_code == 200 and len(response.content) > 1000
payload_accepted(resp) == resp.status = HttpOk /\ resp.len > MinPdfBytes

\* None is the empty path
None == <<>>

\* download_pdf's return value: the path written, or None
download_pdf_result(resp, filename) ==
    IF ~safe_request_ok(resp) THEN None
    ELSE IF payload_accepted(resp) THEN join_path(filename)
    ELSE None

\* variant: an existing file is left as it is
write_file_keep_first(d, filepath, content) ==
    IF filepath \in DOMAIN d THEN d
    ELSE [q \in DOMAIN d \cup {filepath} |-> IF q = filepath THEN content ELSE d[q]]

\* variant: an existing file is kept and the bytes go to a fresh name
write_file_unique(d, filepath, content) ==
    LET target == IF filepath \in DOMAIN d THEN filepath \o <<"~">> ELSE filepath
    IN  [q \in DOMAIN d \cup {target} |-> IF q = target THEN content ELSE d[q]]

\* with open(filepath, 'wb') as f: f.write(response.content); the local disk
\* is taken to accept the write
write_file(d, filepath, content) ==
    [q \in DOMAIN d \cup {filepath} |-> IF q = filepath THEN content ELSE d[q]]

\* variant: a record for every link, downloaded or not
append_always(files, record, filepath) == Append(files, record)

\* if filepath: downloaded_files.append({...})
append_if_downloaded(files, record, filepath) ==
    IF filepath # None THEN Append(files, record) ELSE files

\* variant: idx / len(pdf_links)
progress_before_item(i, total) == <<i, total>>

\* (idx + 1) / len(pdf_links), as the fraction <<numerator, denominator>>
progress_value(i, total) == <<i + 1, total>>

\* variant: the success branch taken whatever was returned
ui_outcome_always_success(downloaded) == "success_total"

\* if downloaded: st.success(...) else: st.error("No cause lists found ...")
ui_outcome(downloaded) ==
    IF downloaded # <<>> THEN "success_total" ELSE "no_cause_lists"

----------------------------------------------------------------------------
(* Inputs *)

Dates == { [day |-> 5,  month |-> 4,  year |-> 2025],
           [day |-> 15, month |-> 11, year |-> 2026] }

\* a filler with punctuation; sanitized, it brings "Tis Hazari Court" to 38
\* characters
Filler ==
    <<" ","-"," ","C","o","u","r","t"," ","(","o","f"," ","t","h","e"," ",
      "J","u","d","g","e",")"," ">>

Anchor(href, strings) == [href |-> href, strings |-> strings]

\* hrefs as a page may hold them
HrefRooted == <<"/","a",".","p","d","f">>
HrefBlanks == <<" ","/","a",".","p","d","f","\n">>
HrefRelative == <<"b",".","p","d","f">>
HrefUpperCase == <<"b",".","P","D","F">>
HrefAbsolute == <<"h","t","t","p",":","/","/","x",".","i","n","/","c",".","p","d","f">>
HrefQuery == <<"/","d",".","p","d","f","?","v","=","2">>
HrefHtml == <<"/","e",".","h","t","m","l">>
HrefOther == <<"/","f",".","p","d","f">>
HrefFtp == <<"f","t","p",":","/","/","x",".","i","n","/","g",".","p","d","f">>
HrefHttpDir == <<"h","t","t","p","d","/","h",".","p","d","f">>

\* Anchors for the batch downloader: two Tis Hazari judges whose labels differ
\* but sanitize and truncate to the same 40 characters, and one other court.
MainPool ==
    { Anchor(HrefRooted, <<TisHazari \o Filler \o <<"A","/","1">> >>),
      Anchor(HrefRelative, <<TisHazari \o Filler \o <<"A","1","x">> >>),
      Anchor(HrefAbsolute, <<DelhiHighCourt \o <<" ","J","3">> >>) }

\* Anchors for link discovery: relative and absolute hrefs, hrefs that contain
\* .pdf without ending in it, other schemes, text in another case, text split
\* over several nodes, empty text, targets that are no PDF.
LinksPool ==
    { Anchor(HrefBlanks, <<TisHazari \o <<" ","J","1">> >>),
      Anchor(HrefUpperCase,
             << <<" ","T","I","S"," ","H","A","Z","A","R","I"," ",
                  "C","O","U","R","T"," ","j","2"," ">> >>),
      Anchor(HrefAbsolute, <<DelhiHighCourt \o <<" ","J","3">> >>),
      Anchor(HrefQuery, <<Karkardooma \o <<" ","J","4">> >>),
      Anchor(HrefHtml, <<TisHazari \o <<" ","J","5">> >>),
      Anchor(HrefOther, << <<" ">>, <<"\n">> >>),
      Anchor(HrefFtp, <<TisHazari \o <<" ","J","7">> >>),
      Anchor(HrefHttpDir, <<DelhiHighCourt \o <<" ","J","8">> >>),
      Anchor(HrefOther,
             << <<"K","a","r","k","a","r","d","o","o","m","a"," ">>,
                <<"C","o","u","r","t"," ","J","9">> >>) }

\* characters of the free part of a judge label
LabelAlphabet == {"a", "Z", "7", "_", " ", "-", "/", "(", "."}

SeqsUpTo(S, n) == UNION {[1..k -> S] : k \in 0..n}

Pages(pool) == SeqsUpTo(pool, MaxAnchors)

NoPrev == [run |-> 0]
NoResponse == [kind |-> "none", status |-> 0, len |-> 0]

----------------------------------------------------------------------------
(* The page before the first press of the button *)

Quiet ==
    /\ phase = "Idle"
    /\ fetched = "none"
    /\ pdf_links = <<>>
    /\ idx = 0
    /\ downloaded_files = <<>>
    /\ dir = <<>>
    /\ progress = <<>>
    /\ screen = <<>>
    /\ attempts = <<>>
    /\ response = NoResponse
    /\ prev = NoPrev
    /\ presses = 0

\* the batch downloader and the page around it
Init ==
    /\ page \in Pages(MainPool)
    /\ selected_court \in CourtNames
    /\ selected_date \in Dates
    /\ Quiet

\* the handler just entered by the first press
Pressed ==
    /\ phase = "Fetching"
    /\ fetched = "none"
    /\ pdf_links = <<>>
    /\ idx = 0
    /\ downloaded_files = <<>>
    /\ dir = <<>>
    /\ progress = <<>>
    /\ screen = <<>>
    /\ attempts = <<>>
    /\ response = NoResponse
    /\ prev = NoPrev
    /\ presses = 1

\* the first run at the top of its loop, the page fetched and scanned
Looping ==
    /\ phase = "Downloading"
    /\ fetched = "ok"
    /\ pdf_links = scan_links(page, selected_court)
    /\ idx = 0
    /\ downloaded_files = <<>>
    /\ dir = <<>>
    /\ progress = << <<0, 1>> >>
    /\ screen = <<"found">>
    /\ attempts = <<>>
    /\ response = NoResponse
    /\ prev = NoPrev
    /\ presses = 1

\* link discovery over every page of the discovery pool, from the press on
InitLinks ==
    /\ page \in Pages(LinksPool)
    /\ selected_court \in CourtNames
    /\ selected_date = [day |-> 5, month |-> 4, year |-> 2025]
    /\ Pressed

\* file names, from the top of the loop on: one link whose judge label is the
\* court's name, an optional filler and a free part over LabelAlphabet
InitLabels ==
    /\ selected_court \in CourtNames
    /\ selected_date \in Dates
    /\ \E pad \in {<<>>, Filler}, free \in SeqsUpTo(LabelAlphabet, MaxLabelLen) :
          page = << Anchor(HrefRooted, <<selected_court \o pad \o free>>) >>
    /\ Looping

----------------------------------------------------------------------------
(* The button handler, one step at a time *)

\* what the run that just ended was given and what it left on disk
RunSummary ==
    [run      |-> presses,
     court    |-> selected_court,
     date     |-> selected_date,
     fetched  |-> fetched,
     links    |-> pdf_links,
     outcomes |-> [i \in 1..Len(attempts) |-> attempts[i].ok],
     filenames |-> [i \in 1..Len(attempts) |-> attempts[i].filename],
     files    |-> DOMAIN dir]

\* st.button(...) returns True: the script reruns and enters the handler
Press ==
    /\ phase \in {"Idle", "Result"}
    /\ presses < MaxPresses
    /\ presses' = presses + 1
    /\ prev' = IF phase = "Result" THEN RunSummary ELSE prev
    /\ phase' = "Fetching"
    /\ fetched' = "none"
    /\ pdf_links' = <<>>
    /\ idx' = 0
    /\ downloaded_files' = <<>>
    /\ progress' = <<>>
    /\ screen' = <<>>
    /\ attempts' = <<>>
    /\ response' = NoResponse
    /\ UNCHANGED <<page, selected_court, selected_date, dir>>

\* download_all_judges_pdfs up to its loop: get_pdf_links_for_court_and_date, the
\* early return on an empty list, st.info and st.progress(0).  An empty list
\* returns to the handler, which renders st.error("No cause lists found ...").
\*   outcome "fail":      safe_request gave None (transport error, 4xx/5xx, timeout)
\*   outcome "parse_exc": parsing raised; the except clause renders st.error
\*   outcome "ok":        the page was fetched and scanned
Fetch(outcome) ==
    /\ phase = "Fetching"
    /\ fetched' = outcome
    /\ LET links == IF outcome = "ok" THEN scan_links(page, selected_court) ELSE <<>>
       IN  /\ pdf_links' = links
           /\ IF links = <<>>
              THEN /\ phase' = "Result"
                   /\ screen' = (IF outcome = "parse_exc"
                                 THEN <<"error_fetching">> ELSE <<>>)
                                \o <<ui_outcome(<<>>)>>
                   /\ progress' = <<>>
              ELSE /\ phase' = "Downloading"
                   /\ screen' = <<"found">>
                   /\ progress' = << <<0, 1>> >>
    /\ UNCHANGED <<page, selected_court, selected_date, idx, downloaded_files,
                   dir, attempts, response, prev, presses>>

\* one iteration of the for loop: the file name, download_pdf, the record, the
\* per-item message and the progress bar; after the last link the function
\* returns and the handler renders the outcome
Download(resp) ==
    /\ phase = "Downloading"
    /\ idx < Len(pdf_links)
    /\ LET pdf_link   == pdf_links[idx + 1]
           judge_name == pdf_link.judge
           safe_judge == safe_judge_of(judge_name)
           filename   == make_filename(selected_court, safe_judge,
                                       strftime_dmy(selected_date))
           filepath   == download_pdf_result(resp, filename)
           record     == [judge |-> judge_name, filepath |-> filepath,
                          filename |-> filename]
           files      == append_if_downloaded(downloaded_files, record, filepath)
           last       == idx + 1 = Len(pdf_links)
       IN  /\ dir' = IF filepath # None
                     THEN write_file(dir, filepath,
                                     [url |-> pdf_link.url, len |-> resp.len])
                     ELSE dir
           /\ downloaded_files' = files
           /\ attempts' = Append(attempts, [url |-> pdf_link.url, filename |-> filename,
                                            ok |-> filepath # None])
           /\ response' = resp
           /\ progress' = Append(progress, progress_value(idx, Len(pdf_links)))
           /\ screen' = screen
                        \o <<IF filepath # None THEN "downloaded" ELSE "failed">>
                        \o (IF last THEN <<ui_outcome(files)>> ELSE <<>>)
           /\ phase' = IF last THEN "Result" ELSE "Downloading"
    /\ idx' = idx + 1
    /\ UNCHANGED <<page, selected_court, selected_date, fetched, pdf_links,
                   prev, presses>>

Next ==
    \/ Press
    \/ \E outcome \in {"ok", "fail", "parse_exc"} : Fetch(outcome)
    \/ \E resp \in Responses : Download(resp)

Spec == Init /\ [][Next]_vars

\* The handler runs synchronously and every request has a timeout (10 s for the
\* page, 20 s for a PDF), so a started step always ends; the user need not press.
FairSpec ==
    /\ Init
    /\ [][Next]_vars
    /\ WF_vars(\E outcome \in {"ok", "fail", "parse_exc"} : Fetch(outcome))
    /\ WF_vars(\E resp \in Responses : Download(resp))

NextLinks == \E outcome \in {"ok", "fail", "parse_exc"} : Fetch(outcome)

SpecLinks == InitLinks /\ [][NextLinks]_vars

NextLabels == \E resp \in Responses : Download(resp)

SpecLabels == InitLabels /\ [][NextLabels]_vars

----------------------------------------------------------------------------
(* What the claims speak of *)

Last(s) == s[Len(s)]

\* the k-th smallest element of a set of numbers
Kth(S, k) == CHOOSE x \in S : Cardinality({y \in S : y < x}) = k - 1

\* the positions of the downloads of this run that succeeded
OkAttempts == {i \in 1..Len(attempts) : attempts[i].ok}

\* p occurs in s when case is ignored
ContainsIgnoringCase(s, p) ==
    \E k \in 0..(Len(s) - Len(p)) :
        \A j \in 1..Len(p) : lower_char(s[k + j]) = lower_char(p[j])

EndsWith(s, p) == Len(s) >= Len(p) /\ SubSeq(s, Len(s) - Len(p) + 1, Len(s)) = p

\* the text of an anchor as the program reads it
VisibleText(a) == get_text_strip(a.strings)

\* the slug DELHI_COURTS maps a display name to
SlugOf(court) ==
    DELHI_COURTS[CHOOSE i \in 1..Len(DELHI_COURTS) : DELHI_COURTS[i].name = court].slug

\* a URL scheme (RFC 3986): a letter, then letters, digits, "+", "-", ".", then ":"
HasScheme(href) ==
    \E n \in 2..Len(href) :
        /\ href[n] = ":"
        /\ href[1] \in Letters
        /\ \A j \in 1..(n - 1) :
              href[j] \in Letters \cup Range(Digits) \cup {"+", "-", "."}

\* the sanitized judge label inside a file name of the form
\* CauseList_<court>_<label>_DD-MM-YYYY.pdf
LabelPart(filename, court) ==
    SubSeq(filename, Len(CauseListPrefix) + Len(court) + 2, Len(filename) - 15)

JusticeLabel ==
    <<"J","u","s","t","i","c","e"," ","A","/","B"," ",
      "(","C","o","u","r","t","-","5",")">>
JusticeSanitized ==
    <<"J","u","s","t","i","c","e"," ","A","B"," ","C","o","u","r","t","-","5">>

----------------------------------------------------------------------------
(* C1 *)

\* C1 (as claimed): every 'filename' in the returned records, and the file
\* written for it, is CauseList_{slug of the selected court}_{sanitized judge
\* label, first 40 characters}_{DD-MM-YYYY}.pdf.
C1_FilenameUsesSlug ==
    \A k \in 1..Len(downloaded_files) :
        LET named == CauseListPrefix \o SlugOf(selected_court) \o <<"_">>
                     \o safe_judge_of(downloaded_files[k].judge) \o <<"_">>
                     \o strftime_dmy(selected_date) \o DotPdf
        IN  /\ downloaded_files[k].filename = named
            /\ (OutputDir \o <<"/">> \o named) \in DOMAIN dir

----------------------------------------------------------------------------
(* C2 *)

KeptInLabels == Letters \cup Range(Digits) \cup {"_", "-"} \cup Whitespace

\* C2 (as claimed): the sanitized label in a file name holds only alphanumeric
\* characters, whitespace and hyphens.
C2_OnlyAlnumSpaceHyphen ==
    \A i \in 1..Len(attempts) :
        Range(LabelPart(attempts[i].filename, selected_court))
            \subseteq Letters \cup Range(Digits) \cup Whitespace \cup {"-"}

\* C2 (amended): the sanitized label in a file name holds only alphanumeric
\* characters, underscores, whitespace and hyphens; it is the judge label with
\* every other character removed, the kept characters in their order, cut to its
\* first 40 characters; "Justice A/B (Court-5)" gives "Justice AB Court-5".
C2_SanitizedLabel ==
    /\ \A i \in 1..Len(attempts) :
          LET label == LabelPart(attempts[i].filename, selected_court)
              judge == pdf_links[i].judge
              kept  == {n \in 1..Len(judge) : judge[n] \in KeptInLabels}
              \* how many kept characters the first n characters of the label hold
              rank  == [n \in 0..Len(judge) |-> Cardinality({m \in kept : m <= n})]
          IN  /\ Len(label) <= 40
              /\ Len(label) = Min(40, Cardinality(kept))
              /\ \A n \in kept : (rank[n] <= 40) => (label[rank[n]] = judge[n])
    /\ safe_judge_of(JusticeLabel) = JusticeSanitized

\* a label with an underscore kept, a parenthesis removed and a tail cut off
C2_Witness ==
    /\ attempts # <<>>
    /\ LET label == LabelPart(attempts[1].filename, selected_court)
       IN  /\ "_" \in Range(label)
           /\ "(" \in Range(pdf_links[1].judge)
           /\ Len(label) = 40
           /\ Last(pdf_links[1].judge) # Last(label)

----------------------------------------------------------------------------
(* C3 *)

\* the names of the links, in order
LinkNames(links) == [i \in 1..Len(links) |-> links[i].name]

\* the visible texts of the anchors of the page that satisfy Wanted, in page order
TextsOf(Wanted(_)) ==
    LET chosen == SelectSeq(page, Wanted)
    IN  [i \in 1..Len(chosen) |-> VisibleText(chosen[i])]

\* C3 (as claimed): the result holds, in page order, exactly one link for each
\* anchor whose href ends in .pdf (case and surrounding blanks ignored) and whose
\* non-empty visible text contains the court-complex label, case ignored.
C3_HrefEndsInPdf ==
    (phase \in {"Downloading", "Result"} /\ fetched = "ok") =>
        LinkNames(pdf_links) =
            TextsOf(LAMBDA a : /\ EndsWith(lower(strip(a.href)), DotPdf)
                               /\ VisibleText(a) # <<>>
                               /\ ContainsIgnoringCase(VisibleText(a), selected_court))

\* C3 (amended): the result holds, in page order, exactly one link for each anchor
\* whose href contains .pdf anywhere, case ignored, and whose non-empty visible
\* text (its text nodes, each stripped, joined) contains the court-complex label,
\* case ignored; no other anchor appears.
C3_HrefContainsPdf ==
    (phase \in {"Downloading", "Result"} /\ fetched = "ok") =>
        /\ LinkNames(pdf_links) =
              TextsOf(LAMBDA a : /\ ContainsIgnoringCase(a.href, DotPdf)
                                 /\ VisibleText(a) # <<>>
                                 /\ ContainsIgnoringCase(VisibleText(a), selected_court))
        /\ \A i \in 1..Len(pdf_links) : pdf_links[i].judge = pdf_links[i].name

\* a page of two anchors of which one is kept, its text matching the label only
\* when case is ignored, and the other, which names another court, is left out
C3_Witness ==
    /\ fetched = "ok"
    /\ Len(page) = 2
    /\ Len(pdf_links) = 1
    /\ ~contains(pdf_links[1].name, selected_court)
    /\ \E i \in 1..2 : /\ href_matches(page[i].href)
                       /\ VisibleText(page[i]) # <<>>
                       /\ VisibleText(page[i]) # pdf_links[1].name

----------------------------------------------------------------------------
(* C4 *)

\* C4 (as claimed): the url of a link is its anchor's href unchanged when the
\* href has a URL scheme; otherwise origin + href when the href starts with "/",
\* and origin + "/" + href when it does not.
C4_SchemeKeptElsePrefixed ==
    (phase \in {"Downloading", "Result"} /\ fetched = "ok") =>
        LET found == SelectSeq(page,
                       LAMBDA a : /\ ContainsIgnoringCase(a.href, DotPdf)
                                  /\ VisibleText(a) # <<>>
                                  /\ ContainsIgnoringCase(VisibleText(a), selected_court))
        IN  \A i \in 1..Len(pdf_links) :
                LET href == strip(found[i].href)
                IN  pdf_links[i].url =
                        IF HasScheme(href) THEN href
                        ELSE IF href[1] = "/" THEN DELHI_BASE_URL \o href
                        ELSE DELHI_BASE_URL \o <<"/">> \o href

----------------------------------------------------------------------------
(* C5 *)

\* C5: a download whose response body has fewer than 1000 bytes adds no record
\* to the result and writes no file, whatever its status.
C5_UndersizedNeverKept ==
    [][ ( /\ phase = "Downloading"
          /\ idx' = idx + 1
          /\ response'.kind = "http"
          /\ response'.len < 1000 )
        => ( dir' = dir /\ downloaded_files' = downloaded_files ) ]_vars

\* a 200 response of 999 bytes was received and dropped
C5_Witness ==
    /\ idx >= 1
    /\ response.kind = "http"
    /\ response.status = 200
    /\ response.len = 999
    /\ ~attempts[idx].ok

----------------------------------------------------------------------------
(* C6 *)

\* C6: every link is attempted exactly once, in list order, whatever the earlier
\* items ended in; the loop ends only when all were attempted; the result is the
\* subsequence of the links whose download succeeded, in the original order.
C6_EveryLinkOnceSuccessesInOrder ==
    /\ Len(attempts) = idx
    /\ idx <= Len(pdf_links)
    /\ \A i \in 1..idx : attempts[i].url = pdf_links[i].url
    /\ (phase = "Result") => (idx = Len(pdf_links))
    /\ Len(downloaded_files) = Cardinality(OkAttempts)
    /\ \A k \in 1..Len(downloaded_files) :
          downloaded_files[k].judge = pdf_links[Kth(OkAttempts, k)].judge

\* a batch of two whose first download failed and whose second succeeded
C6_Witness ==
    /\ phase = "Result"
    /\ Len(pdf_links) = 2
    /\ ~attempts[1].ok
    /\ attempts[2].ok
    /\ Len(downloaded_files) = 1

----------------------------------------------------------------------------
(* C7 *)

\* this run had the inputs of the run before it: the same court and date, the same
\* page fetched with the same result, and the same downloads succeeding
SameInputsAsBefore ==
    /\ prev # NoPrev
    /\ prev.court = selected_court
    /\ prev.date = selected_date
    /\ prev.fetched = fetched
    /\ prev.links = pdf_links
    /\ prev.outcomes = [i \in 1..Len(attempts) |-> attempts[i].ok]

\* C7: a second run with the inputs of the first computes the same file names and
\* leaves the output directory with the same set of file names as the first did.
C7_RerunOverwrites ==
    (phase = "Result" /\ SameInputsAsBefore) =>
        /\ prev.filenames = [i \in 1..Len(attempts) |-> attempts[i].filename]
        /\ DOMAIN dir = prev.files

\* a second run with the inputs of the first, in which a file was written again
C7_Witness ==
    /\ phase = "Result"
    /\ SameInputsAsBefore
    /\ downloaded_files # <<>>

----------------------------------------------------------------------------
(* C8 *)

C8_Step ==
    /\ (phase \in {"Idle", "Result"}) => (phase' \in {phase, "Fetching"})
    /\ (phase = "Fetching") => (phase' \in {"Fetching", "Downloading", "Result"})
    /\ (phase = "Downloading") => (phase' \in {"Downloading", "Result"})
    /\ (phase' = "Downloading") => (idx' < Len(pdf_links'))
    /\ (phase # "Result" /\ phase' = "Result") =>
          /\ idx' = Len(pdf_links')
          /\ Last(screen') \in {"success_total", "no_cause_lists"}
          /\ (Last(screen') = "success_total") <=> (downloaded_files' # <<>>)

----------------------------------------------------------------------------
(* C9 *)

----------------------------------------------------------------------------
(* C10 *)

\* a/b < c/d, for fractions <<numerator, denominator>> with positive denominators
Below(f, g) == f[1] * g[2] < g[1] * f[2]

\* C10: after the bar's initial 0, one value is reported after each item, failed or
\* not; the i-th is i/total; each exceeds the one before; none exceeds 1; the one
\* after the last item is exactly 1.
C10_ProgressAfterEachItem ==
    (pdf_links # <<>>) =>
        /\ Len(progress) = idx + 1
        /\ \A i \in 1..idx :
              /\ progress[i + 1][1] * Len(pdf_links) = i * progress[i + 1][2]
              /\ Below(progress[i], progress[i + 1])
              /\ progress[i + 1][1] <= progress[i + 1][2]
        /\ (phase = "Result") => (Last(progress)[1] = Last(progress)[2])

\* a batch of two, both failed, with the bar at 1/2 and then at 1
C10_Witness ==
    /\ phase = "Result"
    /\ Len(pdf_links) = 2
    /\ OkAttempts = {}
    /\ progress = << <<0, 1>>, <<1, 2>>, <<2, 2>> >>

====
